---- MODULE Spec2Model ----
(***************************************************************************)
(* Model of _modules/reclass.py: the template renderer, the condition      *)
(* evaluator, the class / parameter generators, node_classify and the      *)
(* YAML-file stores it writes (nodes directory, cluster overrides file).   *)
(*                                                                         *)
(* Strings that the code inspects character by character (templates,       *)
(* expressions, attribute names and values) are sequences of one-character *)
(* strings.  Python values that may be of several types are records        *)
(* [t |-> type, v |-> characters].                                         *)
(***************************************************************************)
EXTENDS Integers, Sequences, FiniteSets, TLC

VARIABLES
    args,            \* inputs of the pure function under evaluation
    result,          \* its outcome(s)
    node_name,       \* node_classify: node FQDN (sequence of name tokens)
    node_data,       \* node_classify: known attributes of the node
    class_mapping,   \* node_classify: rules, in the iteration order of items()
    nodes,           \* nodes directory: <<path, file name>> -> YAML document
    genWritable,     \* can nodes/_generated/<name>.yml be opened for writing
    clusterFile,     \* cluster overrides.yml: document, empty or unreadable
    clusterWritable, \* can the overrides file be opened for writing
    pc,              \* position of the running call
    idx,             \* number of rules already iterated
    classes,         \* node_classify local
    node_params,     \* node_classify local
    cluster_params,  \* node_classify local
    ret,             \* node_classify local: the returned dictionary
    exc,             \* exception that left node_classify, "none" if none
    run,             \* 1 for the first call, 2 for the repeated call
    before1,         \* both stores as the first call found them
    after1,          \* both stores as the first call left them
    procs,           \* concurrent cluster_meta_set callers
    lastWriter       \* caller whose write the overrides file holds

vars == << args, result, node_name, node_data, class_mapping, nodes, genWritable,
           clusterFile, clusterWritable, pc, idx, classes, node_params,
           cluster_params, ret, exc, run, before1, after1, procs, lastWriter >>

pureVars == << args, result >>

classifyVars == << node_name, node_data, class_mapping, nodes, genWritable, pc, idx,
                   classes, node_params, cluster_params, ret, exc, run, before1, after1 >>

fileVars == << clusterFile, clusterWritable >>

concVars == << procs, lastWriter >>

----------------------------------------------------------------------------
(* Bounds of the model *)

MaxTmplLen == 3

MaxValLen == 2

MaxRules == 2

----------------------------------------------------------------------------
(* Python str operations *)

\* all strings over alphabet A of length at most n
StringsUpTo(A, n) == UNION { [1..k -> A] : k \in 0..n }

\* s[i:], 1-based
Drop(s, i) == SubSeq(s, i, Len(s))

\* s.startswith(p)
StartsWith(s, p) == Len(p) <= Len(s) /\ SubSeq(s, 1, Len(p)) = p

RECURSIVE StrReplace(_, _, _)
\* s.replace(old, new): leftmost, non-overlapping occurrences (old is non-empty)
StrReplace(s, old, new) ==
    IF s = <<>> THEN <<>>
    ELSE IF StartsWith(s, old) THEN new \o StrReplace(Drop(s, Len(old) + 1), old, new)
    ELSE <<Head(s)>> \o StrReplace(Tail(s), old, new)

RECURSIVE StrSplit(_, _, _)
\* s.split(sep) with cur the segment being collected: always at least one segment
StrSplit(s, sep, cur) ==
    IF s = <<>> THEN << cur >>
    ELSE IF StartsWith(s, sep) THEN << cur >> \o StrSplit(Drop(s, Len(sep) + 1), sep, <<>>)
    ELSE StrSplit(Tail(s), sep, Append(cur, Head(s)))

----------------------------------------------------------------------------
(* string.Template *)

Letters == {"a", "b", "e", "l", "n", "p", "q", "r", "s", "t", "u", "v", "w", "h", "i", "x", "y"}

Digits == {"1"}

IdStart == Letters \cup {"_"}

IdChars == IdStart \cup Digits

RECURSIVE IdLen(_)
\* length of the longest prefix of s made of identifier characters
IdLen(s) == IF s # <<>> /\ Head(s) \in IdChars THEN 1 + IdLen(Tail(s)) ELSE 0

\* '%s' % mapping[key] when the key is known, the placeholder text otherwise
Lookup(mapping, key, text) == IF key \in DOMAIN mapping THEN mapping[key] ELSE text

RECURSIVE safe_substitute(_, _)
\* Template(s).safe_substitute(mapping): $$ | $name | ${name} | a lone $
safe_substitute(s, mapping) ==
    IF s = <<>> THEN <<>>
    ELSE IF Head(s) # "$" THEN <<Head(s)>> \o safe_substitute(Tail(s), mapping)
    ELSE LET r == Tail(s)
             n == IdLen(r)
             b == IF r # <<>> /\ Head(r) = "{" THEN IdLen(Tail(r)) ELSE 0
         IN IF r # <<>> /\ Head(r) = "$"
              THEN <<"$">> \o safe_substitute(Tail(r), mapping)
            ELSE IF r # <<>> /\ Head(r) \in IdStart
              THEN Lookup(mapping, SubSeq(r, 1, n), SubSeq(s, 1, n + 1))
                   \o safe_substitute(Drop(r, n + 1), mapping)
            ELSE IF r # <<>> /\ Head(r) = "{" /\ b > 0 /\ r[2] \in IdStart
                    /\ Len(r) >= b + 2 /\ r[b + 2] = "}"
              THEN Lookup(mapping, SubSeq(r, 2, b + 1), SubSeq(s, 1, b + 3))
                   \o safe_substitute(Drop(r, b + 3), mapping)
            ELSE <<"$">> \o safe_substitute(r, mapping)

\* Template(tmpl.replace('<<', '${').replace('>>', '}'))
BracketsToDollar(tmpl) == StrReplace(StrReplace(tmpl, <<"<", "<">>, <<"$", "{">>), <<">", ">">>, <<"}">>)

\* the rendering every caller performs
Render(tmpl, mapping) == safe_substitute(BracketsToDollar(tmpl), mapping)

----------------------------------------------------------------------------
(* Python values and dictionaries *)

PyNone == [t |-> "none", v |-> <<>>]

PyStr(s) == [t |-> "str", v |-> s]

PyFalse == [t |-> "bool", v |-> <<>>]

PyTrue == [t |-> "bool", v |-> <<"1">>]

\* bool(x): None, '' and False are falsy
Truthy(x) == x.v # <<>>

EmptyDict == <<>>

\* d.get(key, default)
DictGet(d, key, default) == IF key \in DOMAIN d THEN d[key] ELSE default

\* d.update(other): the entries of other win
DictUpdate(d, other) == other @@ d

----------------------------------------------------------------------------
(* _validate_condition, _get_node_classes, _get_params *)

S_all == <<"a", "l", "l">>

S_sep == <<"_", "_">>

S_startswith == <<"s", "t", "a", "r", "t", "s", "w", "i", "t", "h">>

S_equals == <<"e", "q", "u", "a", "l", "s">>

\* "True", "False", or "IndexError" when split('__')[2] does not exist
ValidateSplit(expression) ==
    LET parts == StrSplit(expression, S_sep, <<>>)
    IN IF Len(parts) < 3 THEN "IndexError"
       ELSE IF parts[2] = S_startswith
         THEN (IF StartsWith(parts[1], parts[3]) THEN "True" ELSE "False")
       ELSE IF parts[2] = S_equals
         THEN (IF parts[1] = parts[3] THEN "True" ELSE "False")
       ELSE "False"

_validate_condition(data, expression_tmpl_string) ==
    LET expression == Render(expression_tmpl_string, data)
    IN IF expression # <<>> /\ expression = S_all THEN "True"
       ELSE IF expression # <<>> THEN ValidateSplit(expression)
       ELSE "False"

\* rendered value_template entries, in listed order
RenderAll(data, tmpls) == [i \in 1..Len(tmpls) |-> Render(tmpls[i], data)]

\* mutant: the literal classes are appended before the rendered ones
_get_node_classes_literals_first(data, class_mapping_fragment) ==
    DictGet(class_mapping_fragment, "value", <<>>)
    \o RenderAll(data, DictGet(class_mapping_fragment, "value_template", <<>>))

_get_node_classes(data, class_mapping_fragment) ==
    RenderAll(data, DictGet(class_mapping_fragment, "value_template", <<>>))
    \o DictGet(class_mapping_fragment, "value", <<>>)

\* the entry one parameter contributes to params: a dictionary of 0 or 1 entries
ParamEntry(data, param_name, param) ==
    LET value == DictGet(param, "value", PyNone)
        value_tmpl_string == DictGet(param, "value_template", PyNone)
    IN IF Truthy(value) THEN (param_name :> value)
       ELSE IF Truthy(value_tmpl_string)
         THEN (param_name :> PyStr(Render(value_tmpl_string.v, data)))
       ELSE EmptyDict

_get_params(data, class_mapping_fragment) ==
    LET emitted == { n \in DOMAIN class_mapping_fragment :
                        ParamEntry(data, n, class_mapping_fragment[n]) # EmptyDict }
    IN [n \in emitted |-> ParamEntry(data, n, class_mapping_fragment[n])[n]]

----------------------------------------------------------------------------
(* Inputs the pure functions are evaluated on *)

S_a == <<"a">>

S_b == <<"b">>

TmplChars == {"a", "_", "$", "<", ">", "{", "}"}

ValChars == {"x", "_"}

\* "<<a>>", "<<b>>", "<<a>>.<<q>>" (q is never a known attribute)
T_a == <<"<", "<", "a", ">", ">">>

T_b == <<"<", "<", "b", ">", ">">>

T_aq == T_a \o <<".">> \o <<"<", "<", "q", ">", ">">>

Templates == StringsUpTo(TmplChars, MaxTmplLen) \cup {T_a, T_b, T_aq, <<"$">> \o T_a}

\* attribute mappings with the keys a and b
ValueData == { (S_a :> va) @@ (S_b :> vb) : va, vb \in StringsUpTo(ValChars, MaxValLen) }

\* attribute mappings with the key a alone, or no key
SmallData == { (S_a :> va) : va \in StringsUpTo(ValChars, 1) } \cup {EmptyDict}

\* "<<a>>__equals__<<b>>" and its relatives
T_equals == T_a \o S_sep \o S_equals \o S_sep \o T_b

T_startswith == T_a \o S_sep \o S_startswith \o S_sep \o T_b

T_unsupported == T_a \o S_sep \o <<"i", "n">> \o S_sep \o T_b

T_pair == T_a \o S_sep \o T_b

Expressions == {<<>>, S_all, T_equals, T_startswith, T_unsupported, T_pair, T_a}

ParamValues == {PyNone, PyStr(<<>>), PyStr(<<"l", "i", "t">>), PyFalse, PyTrue}

ParamTemplates == {PyNone, PyStr(<<>>), PyStr(T_a), PyStr(<<"t">>)}

\* a parameter spec holds 'value', 'value_template', both or neither
ParamSpecs ==
    { EmptyDict } \cup { ("value" :> x) : x \in ParamValues }
    \cup { ("value_template" :> y) : y \in ParamTemplates }
    \cup { ("value" :> x) @@ ("value_template" :> y) : x \in ParamValues, y \in ParamTemplates }

Fragments ==
    { ("p" :> ps) : ps \in ParamSpecs }
    \cup { ("p" :> ps) @@ ("q" :> ("value_template" :> PyStr(T_a))) : ps \in ParamSpecs }

----------------------------------------------------------------------------
(* The variables a specification does not use keep these values *)

IdlePure == args = EmptyDict /\ result = EmptyDict

IdleClassify ==
    /\ node_name = <<>> /\ node_data = EmptyDict /\ class_mapping = <<>>
    /\ nodes = EmptyDict /\ genWritable = FALSE
    /\ pc = "idle" /\ idx = 0 /\ classes = <<>>
    /\ node_params = EmptyDict /\ cluster_params = EmptyDict
    /\ ret = EmptyDict /\ exc = "none" /\ run = 0
    /\ before1 = EmptyDict /\ after1 = EmptyDict

IdleFile == clusterFile = [kind |-> "unreadable"] /\ clusterWritable = FALSE

IdleConc == procs = EmptyDict /\ lastWriter = "none"

----------------------------------------------------------------------------
(* Template rendering on its own *)

InitRender ==
    /\ args \in [tmpl : Templates, data : SmallData]
    /\ result = [done |-> FALSE, out |-> <<>>]
    /\ IdleClassify /\ IdleFile /\ IdleConc

RenderCall ==
    /\ ~result.done
    /\ result' = [done |-> TRUE, out |-> Render(args.tmpl, args.data)]
    /\ UNCHANGED << args, classifyVars, fileVars, concVars >>

NextRender == RenderCall

SpecRender == InitRender /\ [][NextRender]_vars

----------------------------------------------------------------------------
(* _validate_condition called on two expressions, one after the other *)

InitCond ==
    /\ args \in [exprs : Expressions \X Expressions, data : ValueData]
    /\ result = <<>>
    /\ IdleClassify /\ IdleFile /\ IdleConc

ValidateConditionCall ==
    /\ Len(result) < Len(args.exprs)
    /\ result' = Append(result, _validate_condition(args.data, args.exprs[Len(result) + 1]))
    /\ UNCHANGED << args, classifyVars, fileVars, concVars >>

NextCond == ValidateConditionCall

SpecCond == InitCond /\ [][NextCond]_vars

----------------------------------------------------------------------------
(* _get_params on its own *)

InitParams ==
    /\ args \in [frag : Fragments, data : SmallData]
    /\ result = [done |-> FALSE, out |-> EmptyDict]
    /\ IdleClassify /\ IdleFile /\ IdleConc

GetParamsCall ==
    /\ ~result.done
    /\ result' = [done |-> TRUE, out |-> _get_params(args.data, args.frag)]
    /\ UNCHANGED << args, classifyVars, fileVars, concVars >>

NextParams == GetParamsCall

SpecParams == InitParams /\ [][NextParams]_vars

----------------------------------------------------------------------------
(* The nodes directory: node_list, node_get, node_create *)

\* a node name is a sequence of tokens; the token ".yml" stands for that text
YML == ".yml"

GENERATED == "_generated"

\* os.walk yields the nodes directory itself first, then its subdirectories
ROOT == "nodes_dir"

K_Error == <<"Error">>

\* name + '.yml'
FileName(name) == Append(name, YML)

\* fl.replace('.yml', ''): every occurrence is removed, not only the suffix
NameOfFile(fl) == SelectSeq(fl, LAMBDA tok : tok # YML)

\* the entry node_list builds from one file
NodeEntry(path, doc) ==
    [ cluster |-> "default", environment |-> "prd", path |-> path,
      classes |-> doc.classes, parameters |-> doc._param ]

\* the file whose entry ret[name] holds at the end of the walk: a later file
\* overwrites an earlier one of the same name, and _generated is walked last
WinningFile(files, name) ==
    LET same == { f \in DOMAIN files : NameOfFile(f[2]) = name }
        gen == { f \in same : f[1] = GENERATED }
    IN IF gen # {} THEN CHOOSE f \in gen : TRUE ELSE CHOOSE f \in same : TRUE

node_list(files) ==
    LET names == { NameOfFile(f[2]) : f \in DOMAIN files }
    IN [ n \in names |-> NodeEntry(WinningFile(files, n)[1], files[WinningFile(files, n)]) ]

node_get(files, name) ==
    IF name \notin DOMAIN node_list(files)
      THEN (K_Error :> "Error in retrieving node")
    ELSE (name :> node_list(files)[name])

\* if node and not "Error" in node
NodeFound(files, name) ==
    node_get(files, name) # EmptyDict /\ K_Error \notin DOMAIN node_get(files, name)

\* the document yaml.safe_dump(node_meta) writes
_get_node_meta(name, cluster, environment, cls, parameters) ==
    [ classes |-> cls, _param |-> parameters, cluster |-> cluster,
      environment |-> environment ]

\* mutant: an existing node is not left alone, the given classes are appended
\* to its file
node_create_files_append(files, name, path, cls, parameters) ==
    IF NodeFound(files, name)
      THEN [files EXCEPT ![WinningFile(files, name)].classes = @ \o cls]
    ELSE (<<path, FileName(name)>> :> _get_node_meta(name, "default", "prd", cls, parameters))
         @@ files

\* the nodes directory after node_create(name, path, classes, parameters)
\* when the file can be opened for writing
node_create_files(files, name, path, cls, parameters) ==
    IF NodeFound(files, name) THEN files
    ELSE (<<path, FileName(name)>> :> _get_node_meta(name, "default", "prd", cls, parameters))
         @@ files

\* does node_create reach open(file_path, 'w')
node_create_writes(files, name) == ~NodeFound(files, name)

\* what node_create returns, given the directory it leaves
node_create_ret(before, after, name) ==
    IF NodeFound(before, name) THEN (name :> node_get(before, name))
    ELSE node_get(after, name)

----------------------------------------------------------------------------
(* The cluster overrides file: cluster_meta_list / _set / _get *)

\* yaml.safe_load gives None for an empty file
CFile(readable, null, doc) == [readable |-> readable, null |-> null, doc |-> doc]

ErrorMeta == ("Error" :> PyStr(<<"e">>))

cluster_meta_list(file) ==
    IF ~file.readable THEN ErrorMeta
    ELSE IF file.null THEN EmptyDict
    ELSE file.doc

\* meta.get('parameters', {}).get('_param', {})
Metadata(meta) == DictGet(DictGet(meta, "parameters", EmptyDict), "_param", EmptyDict)

\* is that dictionary the one inside meta, or a fresh one that meta does not hold
MetadataAttached(meta) ==
    "parameters" \in DOMAIN meta /\ "_param" \in DOMAIN meta["parameters"]

\* if not meta: meta = {'parameters': {'_param': {}}}
MetaOrDefault(meta) ==
    IF meta = EmptyDict THEN ("parameters" :> ("_param" :> EmptyDict)) ELSE meta

\* name in metadata and metadata[name] == value
AlreadySet(meta, name, value) ==
    name \in DOMAIN Metadata(meta) /\ Metadata(meta)[name] = value

\* mutant: metadata is replaced by {name: value} instead of updated
MetaUpdated_replace(meta, name, value) ==
    IF MetadataAttached(meta)
      THEN [meta EXCEPT !["parameters"] = [@ EXCEPT !["_param"] = (name :> value)]]
    ELSE meta

\* meta after metadata.update({name: value})
MetaUpdated(meta, name, value) ==
    IF MetadataAttached(meta)
      THEN [meta EXCEPT !["parameters"] =
                [@ EXCEPT !["_param"] = DictUpdate(@, (name :> value))]]
    ELSE meta

cluster_meta_get(file, name) ==
    LET meta == cluster_meta_list(file)
        metadata == IF "Error" \in DOMAIN meta THEN EmptyDict ELSE Metadata(meta)
    IN IF "Error" \in DOMAIN meta THEN ("Error" :> meta["Error"])
       ELSE IF name \in DOMAIN metadata THEN (name :> metadata[name])
       ELSE EmptyDict

\* the overrides file after cluster_meta_set(name, value)
cluster_meta_set_file(file, writable, name, value) ==
    LET meta == cluster_meta_list(file)
    IN IF "Error" \in DOMAIN meta THEN file
       ELSE IF AlreadySet(MetaOrDefault(meta), name, value) THEN file
       ELSE IF ~writable THEN file
       ELSE CFile(TRUE, FALSE, MetaUpdated(MetaOrDefault(meta), name, value))

\* what cluster_meta_set(name, value) returns
cluster_meta_set_ret(file, writable, name, value) ==
    LET meta == cluster_meta_list(file)
    IN IF "Error" \in DOMAIN meta THEN meta
       ELSE IF AlreadySet(MetaOrDefault(meta), name, value)
         THEN (name :> PyStr(<<"o", "k">>))
       ELSE IF ~writable THEN ("Error" :> PyStr(<<"w">>))
       ELSE cluster_meta_get(cluster_meta_set_file(file, writable, name, value), name)

----------------------------------------------------------------------------
(* Inputs of node_classify *)

NodeNames == { <<"web", "01">>, <<"web", YML, "01">>, K_Error }

S_ub == <<"_", "_", "b">>

T_ub == <<"<", "<">> \o S_ub \o <<">", ">">>

ClassifyData == { (S_a :> <<"x">>) @@ (S_ub :> <<"z">>), (S_a :> <<"y">>) }

Lit1 == PyStr(<<"l", "1">>)

Lit2 == PyStr(<<"l", "2">>)

\* expression 'all': one template class, one literal class, all three buckets
R_all ==
    ("expression" :> S_all)
    @@ ("node_class" :> (("value_template" :> << <<"r">> \o T_a \o T_ub >>)
                         @@ ("value" :> << <<"b", "a", "s", "e">> >>)))
    @@ ("node_param" :> ("n" :> ("value" :> Lit1)))
    @@ ("cluster_param" :> ("p" :> ("value_template" :> PyStr(T_a))))

\* expression '<<a>>__equals__x'
R_eq ==
    ("expression" :> T_a \o S_sep \o S_equals \o S_sep \o <<"x">>)
    @@ ("node_class" :> ("value" :> << <<"e", "q">> >>))
    @@ ("node_param" :> (("n" :> (("value" :> Lit2) @@ ("value_template" :> PyStr(T_a))))
                         @@ ("m" :> ("value" :> PyFalse))))
    @@ ("cluster_param" :> (("p" :> ("value" :> Lit1))
                            @@ ("q" :> ("value_template" :> PyStr(T_a)))))

\* expression '<<a>>__startswith__x': two template classes, two literal classes
R_sw ==
    ("expression" :> T_a \o S_sep \o S_startswith \o S_sep \o <<"x">>)
    @@ ("node_class" :> (("value_template" :> << <<"s">> \o T_a, <<"w">> >>)
                         @@ ("value" :> << <<"l">>, <<"k">> >>)))
    @@ ("cluster_param" :> ("q" :> ("value" :> Lit2)))

\* matches every node but generates no class
R_params ==
    ("expression" :> S_all)
    @@ ("node_param" :> ("n" :> ("value_template" :> PyStr(T_a))))
    @@ ("cluster_param" :> ("p" :> ("value" :> Lit2)))

\* expression '<<a>>': renders to a string without '__'
R_bad ==
    ("expression" :> T_a)
    @@ ("node_class" :> ("value" :> << <<"b", "a", "d">> >>))

\* no expression at all
R_off == ("node_class" :> ("value" :> << <<"o", "f", "f">> >>))

Rules == {R_all, R_eq, R_sw, R_params, R_bad, R_off}

\* a class_mapping holds every type name once
RuleTables ==
    { t \in UNION { [1..k -> Rules] : k \in 0..MaxRules } :
        \A i, j \in 1..Len(t) : i # j => t[i] # t[j] }

OldDoc == _get_node_meta(<<>>, "default", "prd", << <<"o", "l", "d">> >>, EmptyDict)

\* the nodes directory before the call: empty, or one node file
NodeDirs ==
    { EmptyDict }
    \cup { (<<ROOT, FileName(n)>> :> OldDoc) : n \in NodeNames }
    \cup { (<<GENERATED, FileName(<<"web", "01">>)>> :> OldDoc) }

\* the overrides file before the call
ClusterFiles ==
    { CFile(FALSE, FALSE, EmptyDict),
      CFile(TRUE, TRUE, EmptyDict),
      CFile(TRUE, FALSE, ("parameters" :> ("_param" :> ("p" :> PyStr(<<"x">>))))),
      CFile(TRUE, FALSE, ("parameters" :> ("linux" :> ("k" :> Lit1)))),
      CFile(TRUE, FALSE, ("classes" :> << <<"c">> >>)) }

----------------------------------------------------------------------------
(* node_classify, called twice with the same inputs *)

\* {k: v for (k, v) in node_data.items() if not k.startswith('__')}
CleanData(data) == [k \in { k \in DOMAIN data : ~StartsWith(k, S_sep) } |-> data[k]]

EmptyRet == [node_create |-> EmptyDict, cluster_param |-> EmptyDict]

Stores == [nodes |-> nodes, clusterFile |-> clusterFile]

Init ==
    /\ node_name \in NodeNames
    /\ args \in [node_data : ClassifyData]
    /\ node_data = args.node_data
    /\ class_mapping \in RuleTables
    /\ nodes \in NodeDirs
    /\ genWritable \in BOOLEAN
    /\ clusterFile \in ClusterFiles
    /\ clusterWritable \in BOOLEAN
    /\ pc = "enter" /\ idx = 0 /\ classes = <<>>
    /\ node_params = EmptyDict /\ cluster_params = EmptyDict
    /\ ret = EmptyRet /\ exc = "none" /\ run = 1
    /\ before1 = [nodes |-> nodes, clusterFile |-> clusterFile]
    /\ after1 = EmptyDict
    /\ result = EmptyDict
    /\ IdleConc

\* lines 295-300
ClassifyEnter ==
    /\ pc = "enter"
    /\ node_data' = CleanData(node_data)
    /\ classes' = <<>> /\ node_params' = EmptyDict /\ cluster_params' = EmptyDict
    /\ ret' = EmptyRet /\ idx' = 0
    /\ pc' = "rules"
    /\ UNCHANGED << args, result, node_name, class_mapping, nodes, genWritable, exc, run,
                    before1, after1, fileVars, concVars >>

\* lines 302-310: one iteration of the loop over class_mapping.items()
ClassifyRule ==
    /\ pc = "rules" /\ idx < Len(class_mapping)
    /\ LET node_type == class_mapping[idx + 1]
           valid == _validate_condition(node_data, DictGet(node_type, "expression", <<>>))
       IN /\ idx' = idx + 1
          /\ IF valid = "IndexError"
               THEN /\ pc' = "raised" /\ exc' = "IndexError"
                    /\ UNCHANGED << classes, node_params, cluster_params >>
             ELSE IF valid = "True"
               THEN /\ classes' = classes
                           \o _get_node_classes(node_data, DictGet(node_type, "node_class", EmptyDict))
                    /\ node_params' = DictUpdate(node_params,
                           _get_params(node_data, DictGet(node_type, "node_param", EmptyDict)))
                    /\ cluster_params' = DictUpdate(cluster_params,
                           _get_params(node_data, DictGet(node_type, "cluster_param", EmptyDict)))
                    /\ UNCHANGED << pc, exc >>
             ELSE UNCHANGED << pc, exc, classes, node_params, cluster_params >>
    /\ UNCHANGED << args, result, node_name, node_data, class_mapping, nodes, genWritable,
                    ret, run, before1, after1, fileVars, concVars >>

\* lines 312-314: the IOError of open(file_path, 'w') is not caught anywhere
ClassifyCreate ==
    /\ pc = "rules" /\ idx = Len(class_mapping)
    /\ IF classes = <<>>
         THEN /\ pc' = "cluster" /\ UNCHANGED << nodes, ret, exc >>
       ELSE IF node_create_writes(nodes, node_name) /\ ~genWritable
         THEN /\ pc' = "raised" /\ exc' = "IOError" /\ UNCHANGED << nodes, ret >>
       ELSE /\ nodes' = node_create_files(nodes, node_name, GENERATED, classes, node_params)
            /\ ret' = [ret EXCEPT !.node_create = node_create_ret(nodes, nodes', node_name)]
            /\ pc' = "cluster" /\ UNCHANGED exc
    /\ UNCHANGED << args, result, node_name, node_data, class_mapping, genWritable, idx,
                    classes, node_params, cluster_params, run, before1, after1,
                    fileVars, concVars >>

\* lines 316-317: one iteration of the loop over cluster_params.items()
ClassifyClusterParam ==
    /\ pc = "cluster"
    /\ \E name \in DOMAIN cluster_params \ DOMAIN ret.cluster_param :
         /\ clusterFile' = cluster_meta_set_file(clusterFile, clusterWritable, name,
                                                 cluster_params[name])
         /\ ret' = [ret EXCEPT !.cluster_param =
                       (name :> cluster_meta_set_ret(clusterFile, clusterWritable, name,
                                                     cluster_params[name])) @@ @]
    /\ UNCHANGED << args, result, node_name, node_data, class_mapping, nodes, genWritable,
                    clusterWritable, pc, idx, classes, node_params, cluster_params, exc,
                    run, before1, after1, concVars >>

\* line 319
ClassifyReturn ==
    /\ pc = "cluster" /\ DOMAIN cluster_params = DOMAIN ret.cluster_param
    /\ pc' = "done"
    /\ after1' = IF run = 1 THEN Stores ELSE after1
    /\ UNCHANGED << args, result, node_name, node_data, class_mapping, nodes, genWritable,
                    idx, classes, node_params, cluster_params, ret, exc, run, before1,
                    fileVars, concVars >>

\* the caller runs node_classify again with the identical inputs
CallAgain ==
    /\ pc = "done" /\ run = 1
    /\ run' = 2
    /\ node_data' = args.node_data
    /\ pc' = "enter"
    /\ UNCHANGED << args, result, node_name, class_mapping, nodes, genWritable, idx, classes,
                    node_params, cluster_params, ret, exc, before1, after1,
                    fileVars, concVars >>

Next ==
    \/ ClassifyEnter
    \/ ClassifyRule
    \/ ClassifyCreate
    \/ ClassifyClusterParam
    \/ ClassifyReturn
    \/ CallAgain

Spec == Init /\ [][Next]_vars

----------------------------------------------------------------------------
(* The overrides file used through its own operations, one call at a time *)

ParamNames == {"p", "q"}

SetValues == {PyStr(<<"x">>), Lit1}

ClusterFilesMore ==
    ClusterFiles
    \cup { CFile(TRUE, FALSE, ("parameters" :> ("_param" :> EmptyDict))),
           CFile(TRUE, FALSE, ("parameters" :> ("_param" :> ("q" :> Lit2)))
                              @@ ("classes" :> << <<"c">> >>)) }

\* the overrides file after cluster_meta_delete(name)
cluster_meta_delete_file(file, writable, name) ==
    LET meta == cluster_meta_list(file)
    IN IF "Error" \in DOMAIN meta THEN file
       ELSE IF name \notin DOMAIN Metadata(meta) THEN file
       ELSE IF ~writable THEN file
       ELSE CFile(TRUE, FALSE,
                  [meta EXCEPT !["parameters"] =
                      [@ EXCEPT !["_param"] = [n \in DOMAIN @ \ {name} |-> @[n]]]])

NoCall == [called |-> FALSE, name |-> "", value |-> PyNone, ret |-> EmptyDict,
           before |-> CFile(FALSE, FALSE, EmptyDict)]

NoGet == [fresh |-> FALSE, name |-> "", ret |-> EmptyDict]

InitCluster ==
    /\ clusterFile \in ClusterFilesMore
    /\ clusterWritable \in BOOLEAN
    /\ args = NoCall
    /\ result = NoGet
    /\ IdleClassify /\ IdleConc

ClusterMetaSetCall ==
    /\ \E name \in ParamNames, value \in SetValues :
         /\ clusterFile' = cluster_meta_set_file(clusterFile, clusterWritable, name, value)
         /\ args' = [called |-> TRUE, name |-> name, value |-> value,
                     ret |-> cluster_meta_set_ret(clusterFile, clusterWritable, name, value),
                     before |-> clusterFile]
    /\ result' = NoGet
    /\ UNCHANGED << clusterWritable, classifyVars, concVars >>

\* cluster_meta_get right after the cluster_meta_set that args records
ClusterMetaGetCall ==
    /\ args.called /\ ~result.fresh
    /\ \E name \in ParamNames :
         result' = [fresh |-> TRUE, name |-> name, ret |-> cluster_meta_get(clusterFile, name)]
    /\ UNCHANGED << args, fileVars, classifyVars, concVars >>

ClusterMetaDeleteCall ==
    /\ \E name \in ParamNames :
         clusterFile' = cluster_meta_delete_file(clusterFile, clusterWritable, name)
    /\ args' = NoCall
    /\ result' = NoGet
    /\ UNCHANGED << clusterWritable, classifyVars, concVars >>

NextCluster ==
    \/ ClusterMetaSetCall
    \/ ClusterMetaGetCall
    \/ ClusterMetaDeleteCall

SpecCluster == InitCluster /\ [][NextCluster]_vars

----------------------------------------------------------------------------
(* Two callers of cluster_meta_set on the same overrides file *)

Callers == {"c1", "c2"}

\* the callers write different parameter names
CallerName(c) == IF c = "c1" THEN "p" ELSE "q"

ConcFiles ==
    { CFile(TRUE, TRUE, EmptyDict),
      CFile(TRUE, FALSE, ("parameters" :> ("_param" :> EmptyDict))),
      CFile(TRUE, FALSE, ("parameters" :> ("_param" :> ("p" :> PyStr(<<"x">>))))),
      CFile(TRUE, FALSE, ("parameters" :> ("_param" :> ("n" :> Lit2)))) }

InitConc ==
    /\ clusterFile \in ConcFiles
    /\ clusterWritable \in BOOLEAN
    /\ \E v1, v2 \in SetValues :
         procs = [c \in Callers |->
                    [pc |-> "call", name |-> CallerName(c),
                     value |-> IF c = "c1" THEN v1 ELSE v2,
                     meta |-> EmptyDict, seen |-> "none", wrote |-> FALSE,
                     ret |-> EmptyDict]]
    /\ lastWriter = "none"
    /\ IdlePure /\ IdleClassify

\* lines 389-396: read the whole file, change the dictionary in memory
SetLoad(c) ==
    /\ procs[c].pc = "call"
    /\ LET meta == cluster_meta_list(clusterFile)
           name == procs[c].name
           value == procs[c].value
       IN procs' = [procs EXCEPT ![c] =
            IF "Error" \in DOMAIN meta
              THEN [@ EXCEPT !.pc = "done", !.ret = meta]
            ELSE IF AlreadySet(MetaOrDefault(meta), name, value)
              THEN [@ EXCEPT !.pc = "done", !.ret = (name :> PyStr(<<"o", "k">>))]
            ELSE [@ EXCEPT !.pc = "write", !.seen = lastWriter,
                           !.meta = MetaUpdated(MetaOrDefault(meta), name, value)]]
    /\ UNCHANGED << lastWriter, fileVars, pureVars, classifyVars >>

\* lines 397-403: write the whole file
SetWrite(c) ==
    /\ procs[c].pc = "write"
    /\ IF clusterWritable
         THEN /\ clusterFile' = CFile(TRUE, FALSE, procs[c].meta)
              /\ lastWriter' = c
              /\ procs' = [procs EXCEPT ![c].pc = "get", ![c].wrote = TRUE]
       ELSE /\ procs' = [procs EXCEPT ![c].pc = "done",
                                      ![c].ret = ("Error" :> PyStr(<<"w">>))]
            /\ UNCHANGED << clusterFile, lastWriter >>
    /\ UNCHANGED << clusterWritable, pureVars, classifyVars >>

\* line 404: return cluster_meta_get(name, path)
SetReturn(c) ==
    /\ procs[c].pc = "get"
    /\ procs' = [procs EXCEPT ![c].pc = "done",
                              ![c].ret = cluster_meta_get(clusterFile, procs[c].name)]
    /\ UNCHANGED << lastWriter, fileVars, pureVars, classifyVars >>

NextConc == \E c \in Callers : SetLoad(c) \/ SetWrite(c) \/ SetReturn(c)

SpecConc == InitConc /\ [][NextConc]_vars

----------------------------------------------------------------------------
(* Claims about node_classify and the stores, under Spec *)

C2_WriteFailureNotRaised == ~(pc = "raised" /\ exc = "IOError")

RECURSIVE ExpectedClasses(_, _, _)
\* classes of the first k rules: rule by rule, templates before literals
ExpectedClasses(data, table, k) ==
    IF k = 0 THEN <<>>
    ELSE LET rule == table[k]
             frag == DictGet(rule, "node_class", EmptyDict)
             tmpls == DictGet(frag, "value_template", <<>>)
             lits == DictGet(frag, "value", <<>>)
         IN ExpectedClasses(data, table, k - 1)
            \o (IF _validate_condition(data, DictGet(rule, "expression", <<>>)) = "True"
                  THEN [i \in 1..Len(tmpls) |-> Render(tmpls[i], data)] \o lits
                ELSE <<>>)

\* C3: the accumulated class list is, rule by rule in evaluation order, the
\* rendered value_template classes in listed order followed by the literal
\* value classes in listed order; rules that do not match contribute nothing.
C3_ClassOrder ==
    pc \in {"cluster", "done"} =>
        classes = ExpectedClasses(CleanData(args.node_data), class_mapping, Len(class_mapping))

HasBothKinds(rule) ==
    /\ DictGet(DictGet(rule, "node_class", EmptyDict), "value_template", <<>>) # <<>>
    /\ DictGet(DictGet(rule, "node_class", EmptyDict), "value", <<>>) # <<>>

\* two matching rules that each generate template and literal classes, and the
\* call has returned
C3_Witness ==
    /\ pc = "done" /\ Len(class_mapping) >= 2
    /\ \A k \in 1..2 :
          /\ HasBothKinds(class_mapping[k])
          /\ _validate_condition(node_data, class_mapping[k]["expression"]) = "True"
    /\ Len(classes) >= 6

\* C7: node creation is requested iff the class list is non-empty: with no
\* class the nodes directory is unchanged; with classes and no node of that
\* name, the directory afterwards lists the node under _generated with exactly
\* the accumulated classes and node parameters.
C7_NodeCreated ==
    (pc = "done" /\ run = 1) =>
        IF classes = <<>> THEN nodes = before1.nodes /\ ret.node_create = EmptyDict
        ELSE /\ ret.node_create # EmptyDict
             /\ node_name \notin DOMAIN node_list(before1.nodes) =>
                  /\ node_name \in DOMAIN node_list(nodes)
                  /\ node_list(nodes)[node_name].path = GENERATED
                  /\ node_list(nodes)[node_name].classes = classes
                  /\ node_list(nodes)[node_name].parameters = node_params

\* the same with node names that do not contain '.yml' (not a claim)
C7_PlainNames == (YML \notin { node_name[i] : i \in 1..Len(node_name) }) => C7_NodeCreated

----------------------------------------------------------------------------
(* Claims about the overrides file *)

\* C10: when cluster_meta_set(name, value) returns without an 'Error' key, an
\* immediately following cluster_meta_get(name) returns {name: value} and
\* every other stored parameter is as it was.
C10_ReadYourWrite ==
    (args.called /\ result.fresh /\ "Error" \notin DOMAIN args.ret) =>
        /\ result.name = args.name => result.ret = (args.name :> args.value)
        /\ result.name # args.name =>
              result.ret = cluster_meta_get(args.before, result.name)

\* the same for files that are empty or hold parameters._param (not a claim)
C10_AttachedOnly ==
    (args.called /\ (args.before.null \/ MetadataAttached(args.before.doc))) => C10_ReadYourWrite

AllDone == \A c \in Callers : procs[c].pc = "done"

\* the file does not hold the parameter caller c wrote
Lost(c) ==
    /\ procs[c].wrote
    /\ cluster_meta_get(clusterFile, procs[c].name) # (procs[c].name :> procs[c].value)

\* C9: with no mutual exclusion a write is lost exactly when the caller that
\* wrote last had read the file before the other caller wrote it.
C9_LostIffStaleRead ==
    AllDone =>
        \A c \in Callers :
            Lost(c) <=> /\ procs[c].wrote
                        /\ lastWriter # c
                        /\ procs[lastWriter].seen # c

\* both calls wrote and returned without error, and one parameter is missing
C9_Witness ==
    /\ AllDone
    /\ \A c \in Callers : procs[c].wrote /\ "Error" \notin DOMAIN procs[c].ret
    /\ \E c \in Callers : Lost(c)
    /\ Cardinality({ c \in Callers :
                       procs[c].name \in DOMAIN Metadata(cluster_meta_list(clusterFile)) }) = 1

----------------------------------------------------------------------------
(* Claims about the pure functions *)

\* s holds a '<<' and, after it, a '>>'
HasMarker(s) ==
    \E i, j \in 1..Len(s) :
        /\ i + 2 <= j /\ j + 1 <= Len(s)
        /\ s[i] = "<" /\ s[i + 1] = "<" /\ s[j] = ">" /\ s[j + 1] = ">"

\* C6: rendering a template that holds no '<<...>>' marker gives the template
\* back, also when it holds '$' or a lone '<<' or '>>'.
C6_IdentityWithoutMarker ==
    (result.done /\ ~HasMarker(args.tmpl)) => result.out = args.tmpl

\* the same for templates that hold none of '$', '<<', '>>' (not a claim)
C6_PlainText ==
    (result.done /\ \A i \in 1..Len(args.tmpl) : args.tmpl[i] \notin {"$", "<", ">"})
        => result.out = args.tmpl

\* C4: '<<a>>__equals__<<b>>' is satisfied iff the values of a and b are the
\* same string, whatever the values hold.
C4_EqualsIffSame ==
    \A i \in 1..Len(result) :
        args.exprs[i] = T_equals =>
            (result[i] = "True" <=> args.data[S_a] = args.data[S_b])

HasSep(s) == \E i \in 1..(Len(s) - 1) : s[i] = "_" /\ s[i + 1] = "_"

\* the same for values without '__' and a value of a not ending in '_' (not a claim)
C4_NoSeparatorInValues ==
    (/\ ~HasSep(args.data[S_a]) /\ ~HasSep(args.data[S_b])
     /\ (args.data[S_a] = <<>> \/ args.data[S_a][Len(args.data[S_a])] # "_"))
        => C4_EqualsIffSame

\* the rendered expression is not empty, not 'all' and not A__op__B with a
\* supported op
Malformed(data, tmpl) ==
    LET e == Render(tmpl, data)
        parts == StrSplit(e, S_sep, <<>>)
    IN /\ e # <<>> /\ e # S_all
       /\ (Len(parts) < 3 \/ parts[2] \notin {S_startswith, S_equals})

\* C5: every malformed condition is handled the same way, all reported as
\* unsatisfied or all failing with an error.
C5_OnePolicy ==
    (/\ Len(result) = 2
     /\ Malformed(args.data, args.exprs[1])
     /\ Malformed(args.data, args.exprs[2]))
        => result[1] = result[2] /\ result[1] \in {"False", "IndexError"}

\* a literal that is neither null nor empty
PresentLiteral(x) == x # PyNone /\ x # PyStr(<<>>)

\* C8: a non-empty, non-null literal 'value' is emitted as it is; otherwise a
\* present 'value_template' is emitted rendered; otherwise the name is absent.
C8_LiteralWins ==
    result.done =>
        \A n \in DOMAIN args.frag :
            LET value == DictGet(args.frag[n], "value", PyNone)
                tmpl == DictGet(args.frag[n], "value_template", PyNone)
            IN IF PresentLiteral(value)
                 THEN n \in DOMAIN result.out /\ result.out[n] = value
               ELSE IF PresentLiteral(tmpl)
                 THEN n \in DOMAIN result.out
                      /\ result.out[n] = PyStr(Render(tmpl.v, args.data))
               ELSE n \notin DOMAIN result.out

\* the same for literals other than False (not a claim)
C8_WithoutFalse ==
    (\A n \in DOMAIN args.frag : DictGet(args.frag[n], "value", PyNone) # PyFalse)
        => C8_LiteralWins

====
